---- MODULE Spec2Model ----
(***************************************************************************)
(* The invoice/stock ledger of src/database.py (class DatabaseManager):    *)
(* the products, invoices and invoice_items tables, the three ledger       *)
(* handlers add_invoice / update_invoice / delete_invoice with their       *)
(* try / except / rollback, and the product catalog handlers.              *)
(*                                                                         *)
(* Quantities and stock are integers here: the handlers convert every      *)
(* quantity with float(), and on integer-valued quantities the arithmetic  *)
(* of stock + multiplier * quantity is exact.                              *)
(***************************************************************************)
EXTENDS Integers, Sequences, FiniteSets, TLC

\* ------------------------------------------------------------------ bounds
MaxStock == 2       \* the largest stock a product starts with or is edited to
MaxQty == 1         \* item quantities range over 1..MaxQty
MaxInits == 2       \* how many times __init__ completes on one store file
MaxCatalog == 2     \* the most product rows of a store the schema specifications add to

\* Python None / SQL NULL where an id is expected (AUTOINCREMENT ids start at 1)
None == 0

\* The universes of the model. Products 1 and 2 exist when the model starts; id 3
\* names no product until add_product assigns it. At most two invoice ids are ever
\* assigned, and an item list has at most two rows.
InitialProductIds == {1, 2}
ProductIds == InitialProductIds \cup {3}
InvoiceIds == {1, 2}
InvoiceNumbers == {"A", "B"}
ItemCounts == {0, 1, 2}

VARIABLES
    products,       \* table products: id -> row, column -> value, over the columns
                    \* stock, unit_price, cost_price, sale_price the table has
    productSeq,     \* AUTOINCREMENT sequence of products
    invoices,       \* table invoices: id -> [invoice_number, total_amount, status]
    invoiceSeq,     \* AUTOINCREMENT sequence of invoices
    invoice_items,  \* table invoice_items grouped by invoice_id, each group in rowid
                    \* order: invoice_id -> rows [invoice_id, product_id, quantity]
    last,           \* the last ledger or catalog call: the handler, the id it was
                    \* given (or returned), what it raised, and the tables it had written
    initial_stock,  \* history: the stock each product had when the model started
    written,        \* history: the item list of the last successful add/update of each invoice
    scn,            \* history: progress along the Widget scenario (-1: off the script)
    schema,         \* the tables of the store file: table name -> set of column names
    settings,       \* table settings: rows, column -> value
    admin_users,    \* table admin_users: rows [username, password_hash, license_key, is_active]
    mgr,            \* "open" while a DatabaseManager is constructed on the store
    inits,          \* how many times __init__ has run to completion on the store
    out             \* the last schema-store call: [op, ok, ret]

invoiceVars == <<invoices, invoiceSeq, invoice_items, last, initial_stock, written, scn>>
ledgerVars == <<products, productSeq, invoiceVars>>
storeVars == <<schema, settings, admin_users, mgr, inits, out>>
vars == <<ledgerVars, storeVars>>

\* The persisted state as one value (what a transaction snapshots and restores).
Db == [products |-> products, productSeq |-> productSeq, invoices |-> invoices,
       invoiceSeq |-> invoiceSeq, invoice_items |-> invoice_items]

\* ------------------------------------------------------------------ inputs
\* An item names a product (existing or not) or is an ad-hoc line (product_id None).
Items == [product_id : ProductIds \cup {None}, quantity : 1..MaxQty]
ListsOver(S, counts) == UNION {[1..n -> S] : n \in counts}
ItemLists == ListsOver(Items, ItemCounts)
Headers == [invoice_number : InvoiceNumbers]

\* SQL values with their storage class (NULL, TEXT, INTEGER, REAL), for the columns
\* whose values are told apart by it: invoices.status and the settings columns.
Null == [type |-> "null", text |-> "", num |-> 0]
Text(s) == [type |-> "text", text |-> s, num |-> 0]
Integer(n) == [type |-> "integer", text |-> "", num |-> n]
Real(n) == [type |-> "real", text |-> "", num |-> n]

\* data.get(key, default) on a dict that may lack the key.
Get(data, key, default) == IF key \in DOMAIN data THEN data[key] ELSE default

\* ------------------------------------------------------------------ results
Ok == [kind |-> "ok", product |-> None, have |-> None, need |-> None]
\* Mutant: a missing product row raises nothing.
ProductNotFound_unraised == [kind |-> "ok", product |-> None, have |-> None, need |-> None]

ProductNotFound == [kind |-> "ProductNotFound", product |-> None, have |-> None, need |-> None]
StorageFailure == [kind |-> "StorageFailure", product |-> None, have |-> None, need |-> None]
\* Mutant: the message reports the two numbers in each other's place.
StockInsufficient_swapped(p, h, n) ==
    [kind |-> "StockInsufficient", product |-> p, have |-> n, need |-> h]

StockInsufficient(p, h, n) == [kind |-> "StockInsufficient", product |-> p, have |-> h, need |-> n]

\* ------------------------------------------------------------------ SQL statements
\* Each statement maps a store value to the store value after it, or raises.
\* A raising statement changes nothing (SQLite undoes a failed statement).

\* Mutant: an id that matches no row selects the rows of some other invoice.
ItemRows_some_invoice(db, invoice_id) ==
    IF invoice_id \in DOMAIN db.invoice_items THEN db.invoice_items[invoice_id]
    ELSE IF DOMAIN db.invoice_items = {} THEN <<>>
    ELSE db.invoice_items[CHOOSE i \in DOMAIN db.invoice_items : TRUE]

\* The rows of invoice_items WHERE invoice_id=?, in rowid order
ItemRows(db, invoice_id) ==
    IF invoice_id \in DOMAIN db.invoice_items THEN db.invoice_items[invoice_id] ELSE <<>>

\* Mutant: the SELECT finds no row (the previous items are never read).
get_invoice_item_quantities_none(db, invoice_id) == <<>>

\* SELECT product_id, quantity FROM invoice_items WHERE invoice_id=?
get_invoice_item_quantities(db, invoice_id) ==
    LET rows == ItemRows(db, invoice_id)
    IN [i \in 1..Len(rows) |-> [product_id |-> rows[i].product_id,
                                 quantity |-> rows[i].quantity]]

\* Mutant: SET stock = ? in place of SET stock = stock + ?
UpdateStock_overwrite(db, product_id, delta) ==
    IF product_id \in DOMAIN db.products
    THEN [db EXCEPT !.products[product_id].stock = delta]
    ELSE db

\* Mutant: the UPDATE has no WHERE clause, every product's stock moves.
UpdateStock_every_product(db, product_id, delta) ==
    [db EXCEPT !.products = [p \in DOMAIN db.products |->
                                [db.products[p] EXCEPT !.stock = @ + delta]]]

\* UPDATE products SET stock = stock + ? WHERE id=?   (no row: nothing happens)
UpdateStock(db, product_id, delta) ==
    IF product_id \in DOMAIN db.products
    THEN [db EXCEPT !.products[product_id].stock = @ + delta]
    ELSE db

\* INSERT INTO invoices (...): invoice_number is UNIQUE, id is AUTOINCREMENT
InsertInvoiceFails(db, invoice) ==
    \E i \in DOMAIN db.invoices : db.invoices[i].invoice_number = invoice.invoice_number

\* The header values the INSERT and the UPDATE bind, as far as the model keeps
\* them: invoice.get("total_amount", 0.0) and invoice.get("status").
InvoiceRow(invoice) ==
    [invoice_number |-> invoice.invoice_number,
     total_amount |-> Get(invoice, "total_amount", 0),
     status |-> Get(invoice, "status", Null)]

InsertInvoice(db, invoice) ==
    LET id == db.invoiceSeq + 1
    IN [db EXCEPT !.invoices = [i \in DOMAIN db.invoices \cup {id} |->
                                  IF i = id THEN InvoiceRow(invoice)
                                  ELSE db.invoices[i]],
                  !.invoiceSeq = id]

\* Mutant: invoice_number is not UNIQUE for the UPDATE.
UpdateInvoiceFails_never(db, invoice_id, invoice) == FALSE

\* UPDATE invoices SET invoice_number=?, ... WHERE id=?   (no row: nothing happens)
UpdateInvoiceFails(db, invoice_id, invoice) ==
    /\ invoice_id \in DOMAIN db.invoices
    /\ \E i \in DOMAIN db.invoices \ {invoice_id} :
           db.invoices[i].invoice_number = invoice.invoice_number

UpdateInvoiceRow(db, invoice_id, invoice) ==
    IF invoice_id \in DOMAIN db.invoices
    THEN [db EXCEPT !.invoices[invoice_id] = InvoiceRow(invoice)]
    ELSE db

\* Mutant: foreign keys are not enforced.
InsertItemFails_no_fk(db, invoice_id, item) == FALSE

\* Mutant: only FOREIGN KEY(product_id) is enforced.
InsertItemFails_product_only(db, invoice_id, item) ==
    item.product_id # None /\ item.product_id \notin DOMAIN db.products

\* INSERT INTO invoice_items (...): FOREIGN KEY(invoice_id), FOREIGN KEY(product_id),
\* enforced because of PRAGMA foreign_keys = ON
InsertItemFails(db, invoice_id, item) ==
    \/ invoice_id \notin DOMAIN db.invoices
    \/ item.product_id # None /\ item.product_id \notin DOMAIN db.products

InsertItem(db, invoice_id, item) ==
    LET row == [invoice_id |-> invoice_id, product_id |-> item.product_id,
                quantity |-> item.quantity]
    IN [db EXCEPT !.invoice_items =
           [i \in DOMAIN db.invoice_items \cup {invoice_id} |->
               IF i = invoice_id THEN Append(ItemRows(db, invoice_id), row)
               ELSE db.invoice_items[i]]]

\* Mutant: the DELETE removes no row.
DeleteItems_none(db, invoice_id) == db

\* DELETE FROM invoice_items WHERE invoice_id=?
DeleteItems(db, invoice_id) ==
    [db EXCEPT !.invoice_items =
        [i \in DOMAIN db.invoice_items \ {invoice_id} |-> db.invoice_items[i]]]

\* Mutant: the invoice row goes, its item rows stay (no ON DELETE CASCADE).
DeleteInvoiceRow_no_cascade(db, invoice_id) ==
    [db EXCEPT !.invoices = [i \in DOMAIN db.invoices \ {invoice_id} |-> db.invoices[i]]]

\* DELETE FROM invoices WHERE id=?   with invoice_items ... ON DELETE CASCADE
DeleteInvoiceRow(db, invoice_id) ==
    [DeleteItems(db, invoice_id) EXCEPT
        !.invoices = [i \in DOMAIN db.invoices \ {invoice_id} |-> db.invoices[i]]]

\* ------------------------------------------------------------------ stock helpers
\* _validate_stock_levels: the first item that fails decides the error raised.
RECURSIVE ValidateFrom(_, _, _)
ValidateFrom(db, items, i) ==
    IF i > Len(items) THEN Ok
    ELSE LET product_id == items[i].product_id
             quantity == items[i].quantity
         IN IF product_id = None THEN ValidateFrom(db, items, i + 1)
            ELSE IF product_id \notin DOMAIN db.products THEN ProductNotFound
            ELSE IF db.products[product_id].stock < quantity
                 THEN StockInsufficient(product_id, db.products[product_id].stock, quantity)
            ELSE ValidateFrom(db, items, i + 1)

\* Mutant: the loop returns after its first item.
validate_stock_levels_first_only(db, items) ==
    IF Len(items) = 0 THEN Ok ELSE ValidateFrom(db, SubSeq(items, 1, 1), 1)

\* Mutant: an item without product_id is looked up like any other and not found.
validate_stock_levels_adhoc_checked(db, items) ==
    IF \E i \in 1..Len(items) : items[i].product_id = None THEN ProductNotFound
    ELSE ValidateFrom(db, items, 1)

validate_stock_levels(db, items) == ValidateFrom(db, items, 1)

\* _apply_stock_changes: one UPDATE per item that has a product_id.
RECURSIVE ApplyFrom(_, _, _, _)
ApplyFrom(db, items, multiplier, i) ==
    IF i > Len(items) THEN db
    ELSE IF items[i].product_id = None THEN ApplyFrom(db, items, multiplier, i + 1)
    ELSE ApplyFrom(UpdateStock(db, items[i].product_id, multiplier * items[i].quantity),
                   items, multiplier, i + 1)

\* Mutant: the multiplier is ignored, every call subtracts.
apply_stock_changes_debits(db, items, multiplier) == ApplyFrom(db, items, -1, 1)

apply_stock_changes(db, items, multiplier) == ApplyFrom(db, items, multiplier, 1)

\* Whether _apply_stock_changes executes any statement at all.
HasProductItem(items) == \E i \in 1..Len(items) : items[i].product_id # None

\* The INSERT loop over the items: stops at the first INSERT that raises.
RECURSIVE InsertItemsFrom(_, _, _, _)
InsertItemsFrom(db, invoice_id, items, i) ==
    IF i > Len(items) THEN [db |-> db, result |-> Ok]
    ELSE IF InsertItemFails(db, invoice_id, items[i])
         THEN [db |-> db, result |-> StorageFailure]
    ELSE InsertItemsFrom(InsertItem(db, invoice_id, items[i]), invoice_id, items, i + 1)

InsertItems(db, invoice_id, items) == InsertItemsFrom(db, invoice_id, items, 1)

\* Mutant: the rollback is missing, what was written stays.
rollback_missing(committed, working) == working

\* self.conn.rollback(): the store goes back to the last committed value.
rollback(committed, working) == committed

\* ------------------------------------------------------------------ ledger handlers
\* `fault` is the position, among the statements a call executes (its SELECTs and
\* its commit included), of the statement at which the store raises an error of its
\* own (disk, lock, ...); 0, or a position the call does not reach, means the store
\* raises nothing of its own.  A run is [db, result, n]: the working store, what has
\* been raised, and the number of statements executed so far.  X_try is the body of
\* the try block: the working store when it ends or raises, and what it raised.  A
\* handler returns the store it leaves, what it returned or raised, and `touched`:
\* the tables in which the working store differed from the committed one when the
\* try block ended.
Touched(committed, working) ==
    {t \in {"products", "invoices", "invoice_items"} : committed[t] # working[t]}

Begin(db) == [db |-> db, result |-> Ok, n |-> 0]

\* One statement: skipped once something was raised; raises when the store fails at
\* it or a constraint does (`fails`); leaves the store `after` otherwise.
Statement(run, fault, fails, after) ==
    IF run.result.kind # "ok" THEN run
    ELSE IF fault = run.n + 1 \/ fails
         THEN [db |-> run.db, result |-> StorageFailure, n |-> run.n + 1]
    ELSE [db |-> after, result |-> Ok, n |-> run.n + 1]

\* The items with a product_id: those the two stock helpers execute a statement for.
ProductItems(items) == SelectSeq(items, LAMBDA item : item.product_id # None)

\* The items the loop of a stock helper has passed when it reaches its j-th statement.
ItemsBefore(items, j) ==
    LET i == CHOOSE x \in 1..Len(items) :
                 /\ items[x].product_id # None
                 /\ Len(ProductItems(SubSeq(items, 1, x))) = j
    IN SubSeq(items, 1, i - 1)

\* _validate_stock_levels within a run: one SELECT per item with a product_id, up to
\* the first item that fails.
ValidateRun(run, items, fault) ==
    LET j == fault - run.n
    IN IF run.result.kind # "ok" THEN run
       ELSE IF /\ j \in 1..Len(ProductItems(items))
               /\ validate_stock_levels(run.db, ItemsBefore(items, j)).kind = "ok"
            THEN [db |-> run.db, result |-> StorageFailure, n |-> fault]
       ELSE [db |-> run.db, result |-> validate_stock_levels(run.db, items),
             n |-> run.n + Len(ProductItems(items))]

\* _apply_stock_changes within a run: one UPDATE per item with a product_id; the
\* UPDATEs before the one that raises are written.
ApplyRun(run, items, multiplier, fault) ==
    LET j == fault - run.n
    IN IF run.result.kind # "ok" THEN run
       ELSE IF j \in 1..Len(ProductItems(items))
            THEN [db |-> apply_stock_changes(run.db, ItemsBefore(items, j), multiplier),
                  result |-> StorageFailure, n |-> fault]
       ELSE [db |-> apply_stock_changes(run.db, items, multiplier), result |-> Ok,
             n |-> run.n + Len(ProductItems(items))]

\* The INSERT loop within a run: one INSERT per item; the INSERTs before the one
\* that raises are written.
InsertRun(run, invoice_id, items, fault) ==
    LET j == fault - run.n
        before == InsertItems(run.db, invoice_id, SubSeq(items, 1, j - 1))
        all == InsertItems(run.db, invoice_id, items)
    IN IF run.result.kind # "ok" THEN run
       ELSE IF j \in 1..Len(items)
            THEN [db |-> before.db, result |-> StorageFailure, n |-> fault]
       ELSE [db |-> all.db, result |-> all.result, n |-> run.n + Len(items)]

\* self.conn.commit()
Commit(run, fault) == Statement(run, fault, FALSE, run.db)

add_invoice_try(db, invoice, items, fault) ==
    LET checked == ValidateRun(Begin(db), items, fault)
        inserted == Statement(checked, fault, InsertInvoiceFails(checked.db, invoice),
                              InsertInvoice(checked.db, invoice))
        rows == InsertRun(inserted, inserted.db.invoiceSeq, items, fault)
        debited == ApplyRun(rows, items, -1, fault)
        done == Commit(debited, fault)
    IN [db |-> done.db, result |-> done.result]

add_invoice(db, invoice, items, fault) ==
    LET t == add_invoice_try(db, invoice, items, fault)
    IN IF t.result.kind = "ok"
       THEN [db |-> t.db, result |-> Ok, id |-> t.db.invoiceSeq, touched |-> Touched(db, t.db)]
       ELSE [db |-> rollback(db, t.db), result |-> t.result, id |-> None,
             touched |-> Touched(db, t.db)]

update_invoice_try(db, invoice_id, invoice, items, fault) ==
    LET previous_items == get_invoice_item_quantities(db, invoice_id)
        selected == Statement(Begin(db), fault, FALSE, db)
        credited == ApplyRun(selected, previous_items, 1, fault)
        checked == ValidateRun(credited, items, fault)
        updated == Statement(checked, fault,
                             UpdateInvoiceFails(checked.db, invoice_id, invoice),
                             UpdateInvoiceRow(checked.db, invoice_id, invoice))
        deleted == Statement(updated, fault, FALSE, DeleteItems(updated.db, invoice_id))
        rows == InsertRun(deleted, invoice_id, items, fault)
        debited == ApplyRun(rows, items, -1, fault)
        done == Commit(debited, fault)
    IN [db |-> done.db, result |-> done.result]

\* Mutant: only storage errors are caught (except sqlite3.Error), so the ValueError
\* of the validation leaves without a rollback.
update_invoice_catches_storage_only(db, invoice_id, invoice, items, fault) ==
    LET t == update_invoice_try(db, invoice_id, invoice, items, fault)
    IN IF t.result.kind = "StorageFailure"
       THEN [db |-> rollback(db, t.db), result |-> t.result, id |-> None,
             touched |-> Touched(db, t.db)]
       ELSE [db |-> t.db, result |-> t.result, id |-> None, touched |-> Touched(db, t.db)]

update_invoice(db, invoice_id, invoice, items, fault) ==
    LET t == update_invoice_try(db, invoice_id, invoice, items, fault)
    IN IF t.result.kind = "ok"
       THEN [db |-> t.db, result |-> Ok, id |-> None, touched |-> Touched(db, t.db)]
       ELSE [db |-> rollback(db, t.db), result |-> t.result, id |-> None,
             touched |-> Touched(db, t.db)]

delete_invoice_try(db, invoice_id, fault) ==
    LET items == get_invoice_item_quantities(db, invoice_id)
        selected == Statement(Begin(db), fault, FALSE, db)
        credited == ApplyRun(selected, items, 1, fault)
        deleted == Statement(credited, fault, FALSE,
                             DeleteInvoiceRow(credited.db, invoice_id))
        done == Commit(deleted, fault)
    IN [db |-> done.db, result |-> done.result]

delete_invoice(db, invoice_id, fault) ==
    LET t == delete_invoice_try(db, invoice_id, fault)
    IN IF t.result.kind = "ok"
       THEN [db |-> t.db, result |-> Ok, id |-> None, touched |-> Touched(db, t.db)]
       ELSE [db |-> rollback(db, t.db), result |-> t.result, id |-> None,
             touched |-> Touched(db, t.db)]

\* The statements a call executes at most, for item lists and stored invoices of
\* MaxItems rows at most: the loops run once per item.
MaxItems == CHOOSE n \in ItemCounts : \A m \in ItemCounts : m <= n
AddFaults == 0..(3 * MaxItems + 2)
UpdateFaults == 0..(4 * MaxItems + 4)
DeleteFaults == 0..(MaxItems + 3)

\* Read accessors. get_invoice is cur.fetchone(): the rows found, <<>> for None.
get_invoice(db, invoice_id) ==
    IF invoice_id \in DOMAIN db.invoices THEN <<db.invoices[invoice_id]>> ELSE <<>>

fetch_invoice_items(db, invoice_id) == ItemRows(db, invoice_id)

\* SUM(total_amount) over the invoices whose ids are in `ids`.
RECURSIVE SumAmounts(_, _)
SumAmounts(db, ids) ==
    IF ids = {} THEN 0
    ELSE LET i == CHOOSE x \in ids : TRUE
         IN db.invoices[i].total_amount + SumAmounts(db, ids \ {i})

\* The status values the model's invoices carry, in the order SQLite's GROUP BY
\* hands its groups back: NULL first, then the texts in byte order.
StatusOrder == <<Null, Text(""), Text("paid")>>

\* row[0] or "Unknown": None and '' are both falsy.
StatusKey(status) == IF status = Null \/ status = Text("") THEN "Unknown" ELSE status.text

\* totals_summary, as far as invoices go. SUM over no row is NULL.  status_breakdown
\* is the dict comprehension over the GROUP BY rows: of two groups with the same
\* key the one handed back later stays.
totals_summary(db) ==
    LET ids == DOMAIN db.invoices
        groups == SelectSeq(StatusOrder, LAMBDA s : \E i \in ids : db.invoices[i].status = s)
        amount(s) == SumAmounts(db, {i \in ids : db.invoices[i].status = s})
        lastWith(k) == CHOOSE n \in 1..Len(groups) :
                           /\ StatusKey(groups[n]) = k
                           /\ \A m \in (n + 1)..Len(groups) : StatusKey(groups[m]) # k
    IN [total_invoices |-> Cardinality(ids),
        total_revenue |-> IF ids = {} THEN Null ELSE Real(SumAmounts(db, ids)),
        status_breakdown |-> [k \in {StatusKey(groups[n]) : n \in 1..Len(groups)} |->
                                 amount(groups[lastWith(k)])]]

\* ------------------------------------------------------------------ catalog handlers
\* One statement and a commit each; a raising statement changes nothing.
\* (add_product and update_product, which name the columns later versions added,
\* are with the schema store below.)
\* Mutant: the product row goes whether or not item rows reference it.
delete_product_unchecked(db, product_id) ==
    [db |-> [db EXCEPT !.products =
                 [p \in DOMAIN db.products \ {product_id} |-> db.products[p]]],
     result |-> Ok, id |-> None,
     touched |-> IF product_id \in DOMAIN db.products THEN {"products"} ELSE {}]

\* DELETE FROM products WHERE id=?   blocked by FOREIGN KEY(product_id) of invoice_items
delete_product(db, product_id) ==
    IF \E i \in DOMAIN db.invoice_items : \E k \in 1..Len(db.invoice_items[i]) :
           db.invoice_items[i][k].product_id = product_id
    THEN [db |-> db, result |-> StorageFailure, id |-> None, touched |-> {}]
    ELSE [db |-> [db EXCEPT !.products =
                      [p \in DOMAIN db.products \ {product_id} |-> db.products[p]]],
          result |-> Ok, id |-> None,
     touched |-> IF product_id \in DOMAIN db.products THEN {"products"} ELSE {}]

\* ------------------------------------------------------------------ the Widget scenario
\* The calls of the scenario, in order; invoice A is the first invoice, id 1.
ScenarioProducts == {1}
Widget == CHOOSE p \in ScenarioProducts : TRUE
ScenarioScript ==
    << [op |-> "add_invoice", invoice_id |-> None, invoice_number |-> "A",
        items |-> <<[product_id |-> Widget, quantity |-> 4]>>, fault |-> 0],
       [op |-> "add_invoice", invoice_id |-> None, invoice_number |-> "B",
        items |-> <<[product_id |-> Widget, quantity |-> 8]>>, fault |-> 0],
       [op |-> "update_invoice", invoice_id |-> 1, invoice_number |-> "A",
        items |-> <<[product_id |-> Widget, quantity |-> 9]>>, fault |-> 0],
       [op |-> "delete_invoice", invoice_id |-> 1, invoice_number |-> "",
        items |-> <<>>, fault |-> 0] >>

\* scn = k: the calls so far are exactly the first k calls of the script.
ScnNext(s, call) ==
    IF s >= 0 /\ s < Len(ScenarioScript) /\ call = ScenarioScript[s + 1] THEN s + 1 ELSE -1

ScenarioItemLists == {<<[product_id |-> Widget, quantity |-> q]>> : q \in {4, 8, 9}}

\* ------------------------------------------------------------------ schema store
\* The store file as __init__ finds and leaves it.  `st` is the record
\* [schema, products, productSeq, settings, admin_users].  Every statement of __init__ is
\* committed when it ends: what it wrote stays when a later statement raises.
AllTables == {"customers", "products", "invoices", "invoice_items", "settings",
              "admin_users"}

\* The columns each CREATE TABLE IF NOT EXISTS gives a table it creates.
CreatedColumns ==
    [customers |-> {"id", "name", "email", "phone", "address", "tax_number", "created_at"},
     products |-> {"id", "name", "description", "unit_price", "cost_price", "sale_price",
                   "stock", "unit", "created_at"},
     invoices |-> {"id", "invoice_number", "customer_id", "invoice_date", "due_date",
                   "total_amount", "status", "created_at"},
     invoice_items |-> {"id", "invoice_id", "product_id", "description", "quantity",
                        "unit_price", "discount", "line_total"},
     settings |-> {"id", "company_name", "company_phone", "company_address",
                   "default_currency", "theme", "language", "max_discount"},
     admin_users |-> {"id", "username", "password_hash", "license_key", "is_active"}]

PriceColumns == {"unit_price", "cost_price", "sale_price"}

\* The product columns whose values the model keeps.
ProductColumns == PriceColumns \cup {"stock"}

\* Column affinity: what a column of the declared type stores for a bound value.
TextAffinity(v) ==
    IF v.type = "integer" THEN Text(ToString(v.num))
    ELSE IF v.type = "real" THEN Text(ToString(v.num) \o ".0")
    ELSE v

\* Mutant: a REAL column that truncates what it stores to 0.
RealAffinity_zero(v) == Real(0)

RealAffinity(v) == IF v.type = "integer" THEN Real(v.num) ELSE v

\* Python's == on the values a row hands back: numbers compare by value.
PyEq(a, b) ==
    IF a.type \in {"integer", "real"} /\ b.type \in {"integer", "real"}
    THEN a.num = b.num
    ELSE a = b

ExtendRow(row, column, v) ==
    [c \in DOMAIN row \cup {column} |-> IF c = column THEN v ELSE row[c]]

\* CREATE TABLE IF NOT EXISTS, six times: a table that exists keeps its columns.
create_tables(st) ==
    [st EXCEPT !.schema = [t \in AllTables |->
                              IF t \in DOMAIN st.schema THEN st.schema[t]
                              ELSE CreatedColumns[t]]]

\* ALTER TABLE t ADD COLUMN c ... DEFAULT d  raises "duplicate column name" when
\* the table has the column.
AddColumnFails(st, table, column) == column \in st.schema[table]

AddColumn(st, table, column, default) ==
    [st EXCEPT
        !.schema[table] = @ \cup {column},
        !.products = IF table = "products" /\ column \in ProductColumns
                     THEN [i \in DOMAIN @ |-> ExtendRow(@[i], column, default)]
                     ELSE @,
        !.settings = IF table = "settings"
                     THEN [i \in 1..Len(@) |-> ExtendRow(@[i], column, Real(default))]
                     ELSE @]

\* UPDATE products SET sale_price = unit_price WHERE sale_price = 0
AlignSalePrice(st) ==
    LET aligned(row) == IF row["sale_price"] = 0
                        THEN [row EXCEPT !["sale_price"] = row["unit_price"]]
                        ELSE row
    IN [st EXCEPT !.products = [i \in DOMAIN st.products |-> aligned(st.products[i])]]

\* hashlib.sha256(password.encode()).hexdigest()
sha256(password) ==
    CASE password = "admin" ->
             "8c6976e5b5410415bde908bd4dee15dfb167a9c873fc4bb8a81f6f2ab448a918"
      [] password = "pw" ->
             "30c952fab122c3f9759f02a6d95c3758b246b4fee239957b2d4fee46e26170c4"
      [] OTHER -> "2bb80d537b1da3e38bd30361aa855686bde0eacd7162fef6a25fe97bf527a25b"

DefaultAdmin ==
    [username |-> "admin", password_hash |-> sha256("admin"), license_key |-> "DEMO-KEY",
     is_active |-> 1]

\* SELECT COUNT(*) FROM admin_users; the default admin is inserted when it is 0.
SeedAdmin(st) ==
    IF Len(st.admin_users) = 0
    THEN [st EXCEPT !.admin_users = Append(@, DefaultAdmin)]
    ELSE st

\* The cost_price / sale_price branch of _migrate_schema: both columns are added
\* when cost_price is missing, whether or not sale_price is.
migrate_prices(st) ==
    IF "cost_price" \in st.schema["products"] THEN [st |-> st, result |-> "ok"]
    ELSE LET s1 == AddColumn(st, "products", "cost_price", 0)
         IN IF AddColumnFails(s1, "products", "sale_price")
            THEN [st |-> s1, result |-> "OperationalError"]
            ELSE [st |-> AlignSalePrice(AddColumn(s1, "products", "sale_price", 0)),
                  result |-> "ok"]

\* _migrate_schema. `columns` is read once, before the first ALTER.
migrate_schema(st) ==
    LET s1 == IF "stock" \notin st.schema["products"]
              THEN AddColumn(st, "products", "stock", 0) ELSE st
        m == migrate_prices(s1)
        s3 == IF "discount" \notin m.st.schema["invoice_items"]
              THEN AddColumn(m.st, "invoice_items", "discount", 0) ELSE m.st
        s4 == IF "max_discount" \notin s3.schema["settings"]
              THEN AddColumn(s3, "settings", "max_discount", 0) ELSE s3
    IN IF m.result # "ok" THEN m ELSE [st |-> SeedAdmin(s4), result |-> "ok"]

\* The seven settings fields, in the order of save_settings' parameters.
SettingsFields == {"company_name", "company_phone", "company_address",
                   "default_currency", "theme", "language", "max_discount"}

\* What the settings column named f stores for a bound value.
Affinity(f, v) == IF f = "max_discount" THEN RealAffinity(v) ELSE TextAffinity(v)

\* The literals of the INSERT of _ensure_settings_row.
DefaultSettingsRow ==
    [c \in CreatedColumns["settings"] |->
        CASE c = "id" -> Integer(1)
          [] c = "company_name" -> Text("Noura")
          [] c = "default_currency" -> Text("USD")
          [] c = "theme" -> Text("dark")
          [] c = "language" -> Text("en")
          [] c = "max_discount" -> Affinity(c, Integer(0))
          [] OTHER -> Text("")]

HasSettingsRow(st) == \E i \in 1..Len(st.settings) : st.settings[i]["id"] = Integer(1)

\* Mutant: the defaults are inserted without the SELECT COUNT(*) test.
ensure_settings_row_always(st) == [st EXCEPT !.settings = Append(@, DefaultSettingsRow)]

\* Mutant: INSERT OR REPLACE, the defaults are written over the row that is there.
ensure_settings_row_reset(st) == [st EXCEPT !.settings = <<DefaultSettingsRow>>]

ensure_settings_row(st) ==
    IF HasSettingsRow(st) THEN st
    ELSE [st EXCEPT !.settings = Append(@, DefaultSettingsRow)]

\* DatabaseManager.__init__: _create_tables, _migrate_schema, _ensure_settings_row.
initialize(st) ==
    LET m == migrate_schema(create_tables(st))
    IN IF m.result # "ok" THEN m
       ELSE [st |-> ensure_settings_row(m.st), result |-> "ok"]

\* get_settings: the dict of the row with id 1, the literal defaults without it.
get_settings(st) ==
    LET found == SelectSeq(st.settings, LAMBDA r : r["id"] = Integer(1))
    IN IF Len(found) = 0
       THEN [f \in SettingsFields |->
                IF f = "max_discount" THEN Integer(0) ELSE DefaultSettingsRow[f]]
       ELSE [f \in SettingsFields |-> found[1][f]]

\* Mutant: a plain INSERT, without ON CONFLICT(id) DO UPDATE.
save_settings_insert_only(st, values) ==
    [st EXCEPT !.settings = Append(@, [c \in CreatedColumns["settings"] |->
                                          IF c = "id" THEN Integer(1)
                                          ELSE Affinity(c, values[c])])]

\* save_settings: INSERT ... ON CONFLICT(id) DO UPDATE SET every field.
save_settings(st, values) ==
    IF HasSettingsRow(st)
    THEN [st EXCEPT !.settings = [i \in 1..Len(@) |->
             IF @[i]["id"] = Integer(1)
             THEN [c \in DOMAIN @[i] |->
                      IF c \in SettingsFields THEN Affinity(c, values[c]) ELSE @[i][c]]
             ELSE @[i]]]
    ELSE [st EXCEPT !.settings = Append(@, [c \in CreatedColumns["settings"] |->
                                               IF c = "id" THEN Integer(1)
                                               ELSE Affinity(c, values[c])])]

\* Mutant: the password is compared as given, without the digest.
authenticate_admin_plain(st, username, password, license_key) ==
    \E i \in 1..Len(st.admin_users) :
        /\ st.admin_users[i].username = username
        /\ st.admin_users[i].password_hash = password
        /\ st.admin_users[i].license_key = license_key
        /\ st.admin_users[i].is_active = 1

\* authenticate_admin: cur.fetchone() is not None
authenticate_admin(st, username, password, license_key) ==
    LET pwd_hash == sha256(password)
    IN \E i \in 1..Len(st.admin_users) :
           /\ st.admin_users[i].username = username
           /\ st.admin_users[i].password_hash = pwd_hash
           /\ st.admin_users[i].license_key = license_key
           /\ st.admin_users[i].is_active = 1

\* The values add_product and update_product bind to the columns the model keeps.
ProductRow(data) ==
    [c \in ProductColumns |->
        CASE c = "unit_price" -> Get(data, "unit_price", Get(data, "sale_price", 0))
          [] c = "cost_price" -> Get(data, "cost_price", 0)
          [] c = "sale_price" -> Get(data, "sale_price", Get(data, "unit_price", 0))
          [] c = "stock" -> Get(data, "stock", 0)]

\* The INSERT and the UPDATE name cost_price, sale_price and stock: the statement
\* raises when the table lacks one of them.
ProductStatementFails(st) == ~(ProductColumns \subseteq st.schema["products"])

\* add_product: one INSERT of the whole row, commit, return cur.lastrowid.
add_product(st, data) ==
    LET id == st.productSeq + 1
    IN IF ProductStatementFails(st)
       THEN [st |-> st, result |-> "OperationalError", id |-> None]
       ELSE [st |-> [st EXCEPT !.products = [p \in DOMAIN st.products \cup {id} |->
                                               IF p = id THEN ProductRow(data)
                                               ELSE st.products[p]],
                               !.productSeq = id],
             result |-> "ok", id |-> id]

\* update_product: one UPDATE of every column of the row WHERE id=?  (no row:
\* nothing happens), commit.
update_product(st, product_id, data) ==
    IF ProductStatementFails(st) THEN [st |-> st, result |-> "OperationalError", id |-> None]
    ELSE [st |-> IF product_id \in DOMAIN st.products
                 THEN [st EXCEPT !.products[product_id] = ProductRow(data)]
                 ELSE st,
          result |-> "ok", id |-> None]


\* ------------------------------------------------------------------ store file states
St == [schema |-> schema, products |-> products, productSeq |-> productSeq,
       settings |-> settings, admin_users |-> admin_users]

EmptyStore == [schema |-> [t \in {} |-> {}], products |-> <<>>, productSeq |-> 0,
               settings |-> <<>>, admin_users |-> <<>>]

\* Stores left by earlier versions: the four core tables, with any of the columns
\* later versions added missing, and with or without the settings and admin_users
\* tables.
LegacySchemas ==
    {[t \in (AllTables \ {"settings", "admin_users"}) \cup late |->
         CASE t = "products" -> CreatedColumns[t] \ noProduct
           [] t = "invoice_items" -> CreatedColumns[t] \ noItem
           [] t = "settings" -> CreatedColumns[t] \ noSetting
           [] OTHER -> CreatedColumns[t]] :
     late \in SUBSET {"settings", "admin_users"},
     noProduct \in SUBSET {"stock", "cost_price", "sale_price"},
     noItem \in SUBSET {"discount"},
     noSetting \in SUBSET {"max_discount"}}

\* No product, or one product priced 10 (at no cost), 10 in stock.
LegacyCatalogs(columns) ==
    {<<>>, <<[c \in ProductColumns \cap columns |-> IF c = "cost_price" THEN 0 ELSE 10]>>}

LegacySettings(columns) ==
    {<<>>, <<[c \in columns |->
                CASE c = "id" -> Integer(1)
                  [] c = "company_name" -> Text("Acme")
                  [] c = "max_discount" -> Real(5)
                  [] OTHER -> Text("")]>>}

Usernames == {"admin", "bob"}
Passwords == {"admin", "pw"}
LicenseKeys == {"DEMO-KEY", "K2"}
\* Stored hashes: digests, and a string that is a password and no digest.
StoredHashes == {sha256(p) : p \in Passwords} \cup {"admin"}
AdminRows == [username : Usernames, password_hash : StoredHashes,
              license_key : LicenseKeys, is_active : {0, 1}]

\* username is UNIQUE: the rows of a table differ in it.
AdminTables ==
    {<<>>} \cup {<<r>> : r \in AdminRows}
           \cup {<<r, q>> : r \in {x \in AdminRows : x.username = "admin"},
                            q \in {x \in AdminRows : x.username = "bob"}}

\* The admin tables of the legacy stores: empty, one row, or an inactive row
\* followed by an active one.
LegacyAdmins ==
    LET bob(active) == [username |-> "bob", password_hash |-> sha256("pw"),
                        license_key |-> "K2", is_active |-> active]
    IN {<<>>, <<bob(0)>>, <<bob(1)>>, <<bob(0), DefaultAdmin>>}

LegacyStores ==
    {EmptyStore} \cup
    UNION {{[schema |-> s, products |-> c, productSeq |-> Len(c), settings |-> g,
             admin_users |-> a] :
               c \in LegacyCatalogs(s["products"]),
               g \in IF "settings" \in DOMAIN s THEN LegacySettings(s["settings"])
                     ELSE {<<>>},
               a \in IF "admin_users" \in DOMAIN s THEN LegacyAdmins ELSE {<<>>}} :
           s \in LegacySchemas}

\* ------------------------------------------------------------------ schema-store inputs
SettingsTexts == {"", "Acme"}
Discounts == {Integer(0), Integer(5), Real(5)}
\* save_settings arguments: six strings and a number.  Of the six strings none,
\* one, all but one or all are "Acme", the others empty.
SettingsInputs ==
    {[f \in SettingsFields |->
         IF f = "max_discount" THEN d
         ELSE IF f \in named THEN Text("Acme") ELSE Text("")] :
     named \in {n \in SUBSET (SettingsFields \ {"max_discount"}) :
                   Cardinality(n) \notin 2..4},
     d \in Discounts}

\* The arguments the model's save_settings calls are made with.
SettingsSamples ==
    {v \in SettingsInputs :
        /\ v["max_discount"] \in {Integer(0), Real(5)}
        /\ \/ \A f \in SettingsFields \ {"max_discount"} : v[f] = Text("Acme")
           \/ \A f \in SettingsFields \ {"max_discount", "theme"} : v[f] = Text("")}

\* Product dicts: each of unit_price and sale_price given or left out (stock is
\* left out); and dicts that give the stock alone.
Prices == {10, 12}
ProductData == UNION {[keys -> Prices] : keys \in SUBSET {"unit_price", "sale_price"}}
StockData(stocks) == {[stock |-> n] : n \in stocks}

\* ------------------------------------------------------------------ schema-store actions
StoreSt(st) ==
    /\ schema' = st.schema
    /\ products' = st.products
    /\ productSeq' = st.productSeq
    /\ settings' = st.settings
    /\ admin_users' = st.admin_users

Called(op, ok, ret) == [op |-> op, ok |-> ok, ret |-> ret]

\* A store in the state St, with no manager constructed on it yet.
StoreIs(st) ==
    /\ schema = st.schema
    /\ products = st.products
    /\ productSeq = st.productSeq
    /\ settings = st.settings
    /\ admin_users = st.admin_users
    /\ mgr = "closed"
    /\ inits = 0
    /\ out = Called("none", TRUE, "None")

\* A new store file on which __init__ has run once (table products is set by the
\* add_product calls that follow).
FreshStore ==
    LET st == initialize(EmptyStore).st
    IN /\ schema = st.schema
       /\ settings = st.settings
       /\ admin_users = st.admin_users
       /\ mgr = "open"
       /\ inits = 1
       /\ out = Called("init", TRUE, "None")


\* ------------------------------------------------------------------ state machine
Store(db) ==
    /\ products' = db.products
    /\ productSeq' = db.productSeq
    /\ invoices' = db.invoices
    /\ invoiceSeq' = db.invoiceSeq
    /\ invoice_items' = db.invoice_items

Init ==
    /\ products = [p \in InitialProductIds |-> ProductRow([stock |-> MaxStock + 1 - p])]
    /\ productSeq = Cardinality(InitialProductIds)
    /\ invoices = <<>>
    /\ invoiceSeq = 0
    /\ invoice_items = <<>>
    /\ last = [op |-> "init", id |-> None, result |-> "ok", touched |-> {}]
    /\ initial_stock = [p \in InitialProductIds |-> products[p].stock]
    /\ written = <<>>
    /\ scn = -1
    /\ FreshStore

ScenarioInit ==
    /\ products = [p \in ScenarioProducts |-> ProductRow([stock |-> 10])]
    /\ productSeq = Cardinality(ScenarioProducts)
    /\ invoices = <<>>
    /\ invoiceSeq = 0
    /\ invoice_items = <<>>
    /\ last = [op |-> "init", id |-> None, result |-> "ok", touched |-> {}]
    /\ initial_stock = [p \in ScenarioProducts |-> 10]
    /\ written = <<>>
    /\ scn = 0
    /\ FreshStore

AddInvoice(invoice, items, fault) ==
    LET r == add_invoice(Db, invoice, items, fault)
    IN /\ r.result.kind = "ok" => r.id \in InvoiceIds
       /\ Store(r.db)
       /\ last' = [op |-> "add_invoice", id |-> r.id, result |-> r.result.kind,
                   touched |-> r.touched]
       /\ written' = IF r.result.kind = "ok"
                     THEN [i \in DOMAIN written \cup {r.id} |->
                              IF i = r.id THEN items ELSE written[i]]
                     ELSE written
       /\ scn' = ScnNext(scn, [op |-> "add_invoice", invoice_id |-> None,
                               invoice_number |-> invoice.invoice_number,
                               items |-> items, fault |-> fault])
       /\ UNCHANGED <<initial_stock, storeVars>>

UpdateInvoice(invoice_id, invoice, items, fault) ==
    LET r == update_invoice(Db, invoice_id, invoice, items, fault)
    IN /\ Store(r.db)
       /\ last' = [op |-> "update_invoice", id |-> invoice_id, result |-> r.result.kind,
                   touched |-> r.touched]
       /\ written' = IF r.result.kind = "ok" /\ invoice_id \in DOMAIN invoices
                     THEN [written EXCEPT ![invoice_id] = items]
                     ELSE written
       /\ scn' = ScnNext(scn, [op |-> "update_invoice", invoice_id |-> invoice_id,
                               invoice_number |-> invoice.invoice_number,
                               items |-> items, fault |-> fault])
       /\ UNCHANGED <<initial_stock, storeVars>>

DeleteInvoice(invoice_id, fault) ==
    LET r == delete_invoice(Db, invoice_id, fault)
    IN /\ Store(r.db)
       /\ last' = [op |-> "delete_invoice", id |-> invoice_id, result |-> r.result.kind,
                   touched |-> r.touched]
       /\ written' = IF r.result.kind = "ok"
                     THEN [i \in DOMAIN written \ {invoice_id} |-> written[i]]
                     ELSE written
       /\ scn' = ScnNext(scn, [op |-> "delete_invoice", invoice_id |-> invoice_id,
                               invoice_number |-> "", items |-> <<>>, fault |-> fault])
       /\ UNCHANGED <<initial_stock, storeVars>>

AddProduct(data) ==
    /\ mgr = "open"
    /\ LET r == add_product(St, data)
       IN /\ StoreSt(r.st)
          /\ last' = [op |-> "add_product", id |-> r.id,
                      result |-> IF r.result = "ok" THEN "ok" ELSE "StorageFailure",
                      touched |-> IF r.result = "ok" THEN {"products"} ELSE {}]
    /\ scn' = -1
    /\ UNCHANGED <<invoices, invoiceSeq, invoice_items, initial_stock, written, mgr, inits,
                   out>>

UpdateProduct(product_id, data) ==
    /\ mgr = "open"
    /\ LET r == update_product(St, product_id, data)
       IN /\ StoreSt(r.st)
          /\ last' = [op |-> "update_product", id |-> None,
                      result |-> IF r.result = "ok" THEN "ok" ELSE "StorageFailure",
                      touched |-> IF r.result = "ok" /\ product_id \in DOMAIN products
                                  THEN {"products"} ELSE {}]
    /\ scn' = -1
    /\ UNCHANGED <<invoices, invoiceSeq, invoice_items, initial_stock, written, mgr, inits,
                   out>>

DeleteProduct(product_id) ==
    /\ mgr = "open"
    /\ LET r == delete_product(Db, product_id)
       IN /\ Store(r.db)
          /\ last' = [op |-> "delete_product", id |-> None, result |-> r.result.kind,
                      touched |-> r.touched]
    /\ scn' = -1
    /\ UNCHANGED <<initial_stock, written, storeVars>>

\* DatabaseManager(path): when __init__ raises there is no manager.
Initialize ==
    /\ mgr = "closed"
    /\ inits < MaxInits
    /\ LET r == initialize(St)
       IN /\ StoreSt(r.st)
          /\ mgr' = IF r.result = "ok" THEN "open" ELSE "closed"
          /\ inits' = IF r.result = "ok" THEN inits + 1 ELSE inits
          /\ out' = Called("init", r.result = "ok", "None")
    /\ UNCHANGED invoiceVars

Close ==
    /\ mgr = "open"
    /\ mgr' = "closed"
    /\ out' = Called("close", TRUE, "None")
    /\ UNCHANGED <<ledgerVars, schema, settings, admin_users, inits>>

SaveSettings(values) ==
    /\ mgr = "open"
    /\ StoreSt(save_settings(St, values))
    /\ out' = Called("save_settings", TRUE, "None")
    /\ UNCHANGED <<invoiceVars, mgr, inits>>

GetSettings ==
    /\ mgr = "open"
    /\ out' = Called("get_settings", TRUE, get_settings(St)["company_name"].text)
    /\ UNCHANGED <<ledgerVars, schema, settings, admin_users, mgr, inits>>

AuthenticateAdmin(username, password, license_key) ==
    /\ mgr = "open"
    /\ out' = Called("authenticate_admin", TRUE,
                     IF authenticate_admin(St, username, password, license_key)
                     THEN "True" ELSE "False")
    /\ UNCHANGED <<ledgerVars, schema, settings, admin_users, mgr, inits>>

\* The dashboard and the reports page read the totals; nothing is written.
TotalsSummary ==
    /\ last' = [op |-> "totals_summary", id |-> None,
                result |-> IF totals_summary(Db).total_revenue = Null THEN "None" ELSE "ok",
                touched |-> {}]
    /\ scn' = -1
    /\ UNCHANGED <<products, productSeq, invoices, invoiceSeq, invoice_items,
                   initial_stock, written, storeVars>>

\* Ledger calls only, the store raising nothing of its own.
NextLedger ==
    \/ \E invoice \in Headers, items \in ItemLists : AddInvoice(invoice, items, 0)
    \/ \E id \in InvoiceIds, invoice \in Headers, items \in ItemLists :
           UpdateInvoice(id, invoice, items, 0)
    \/ \E id \in InvoiceIds : DeleteInvoice(id, 0)

SpecLedger == Init /\ [][NextLedger]_vars

\* Ledger calls during which the store may raise at any statement.  The items name
\* one product that exists, one that does not, or none.
FaultItems == {item \in Items : item.product_id \in {1, 3, None}}
FaultItemLists == ListsOver(FaultItems, ItemCounts)
NextFault ==
    \/ \E invoice \in Headers, items \in FaultItemLists, fault \in AddFaults :
           AddInvoice(invoice, items, fault)
    \/ \E id \in InvoiceIds, invoice \in Headers, items \in FaultItemLists,
          fault \in UpdateFaults :
           UpdateInvoice(id, invoice, items, fault)
    \/ \E id \in InvoiceIds, fault \in DeleteFaults : DeleteInvoice(id, fault)

SpecFault == Init /\ [][NextFault]_vars

\* Ledger and catalog calls. Here one invoice id is assigned at most (update_invoice
\* and delete_invoice are still called with ids that name no invoice), and item
\* lists have one row at most.
CatalogItemLists == ListsOver(Items, {0, 1})
CatalogStocks == {0, MaxStock}
CatalogInvoiceIds == {1}
Next ==
    \/ \E invoice \in Headers, items \in CatalogItemLists :
           AddInvoice(invoice, items, 0) /\ DOMAIN invoices' \subseteq CatalogInvoiceIds
    \/ \E id \in InvoiceIds, invoice \in Headers, items \in CatalogItemLists :
           UpdateInvoice(id, invoice, items, 0)
    \/ \E id \in InvoiceIds : DeleteInvoice(id, 0)
    \/ \E data \in StockData(CatalogStocks) : AddProduct(data) /\ productSeq' \in ProductIds
    \/ \E p \in ProductIds, data \in StockData(CatalogStocks) : UpdateProduct(p, data)
    \/ \E p \in ProductIds : DeleteProduct(p)

Spec == Init /\ [][Next]_vars

\* The Widget scenario's store, with every call over the scenario's quantities.
NextScenario ==
    \/ \E invoice \in Headers, items \in ScenarioItemLists : AddInvoice(invoice, items, 0)
    \/ \E id \in InvoiceIds, invoice \in Headers, items \in ScenarioItemLists :
           UpdateInvoice(id, invoice, items, 0)
    \/ \E id \in InvoiceIds : DeleteInvoice(id, 0)

SpecScenario == ScenarioInit /\ [][NextScenario]_vars

\* The invoice tables of a store no invoice operation has been run on.
LedgerIdle ==
    /\ invoices = <<>>
    /\ invoiceSeq = 0
    /\ invoice_items = <<>>
    /\ last = [op |-> "init", id |-> None, result |-> "ok", touched |-> {}]
    /\ initial_stock = <<>>
    /\ written = <<>>
    /\ scn = -1

\* Any legacy store: initialization, restarts, settings and product price edits.
InitStore == LedgerIdle /\ \E st \in LegacyStores : StoreIs(st)

NextStore ==
    \/ Initialize
    \/ Close
    \/ \E values \in SettingsSamples : SaveSettings(values)
    \/ GetSettings
    \/ \E data \in ProductData : AddProduct(data) /\ productSeq < MaxCatalog
    \/ \E p \in 1..MaxCatalog, data \in ProductData : UpdateProduct(p, data)

SpecStore == InitStore /\ [][NextStore]_vars

\* Any admin table: initialization and sign-in attempts.
InitAdmin ==
    /\ LedgerIdle
    /\ \E a \in AdminTables :
           StoreIs([create_tables(EmptyStore) EXCEPT !.admin_users = a])

NextAdmin ==
    \/ Initialize
    \/ Close
    \/ \E u \in Usernames, p \in Passwords, k \in LicenseKeys : AuthenticateAdmin(u, p, k)

SpecAdmin == InitAdmin /\ [][NextAdmin]_vars

\* Invoices without items, with their totals and statuses, and the totals read.
\* A header carries a total and a status (None, '' or a name) or leaves both out.
Amounts == {5, 10}
ReportHeaders ==
    Headers \cup [invoice_number : InvoiceNumbers, total_amount : Amounts,
                  status : {StatusOrder[n] : n \in 1..Len(StatusOrder)}]
NextReport ==
    \/ \E invoice \in ReportHeaders : AddInvoice(invoice, <<>>, 0)
    \/ \E id \in InvoiceIds, invoice \in ReportHeaders : UpdateInvoice(id, invoice, <<>>, 0)
    \/ \E id \in InvoiceIds : DeleteInvoice(id, 0)
    \/ TotalsSummary

SpecReport == Init /\ [][NextReport]_vars

\* ------------------------------------------------------------------ measures
\* The total quantity of the rows of `rows` that reference product p.
RECURSIVE QtyFrom(_, _, _)
QtyFrom(rows, p, i) ==
    IF i > Len(rows) THEN 0
    ELSE (IF rows[i].product_id = p THEN rows[i].quantity ELSE 0) + QtyFrom(rows, p, i + 1)

QtyOf(rows, p) == QtyFrom(rows, p, 1)

\* The total quantity of all stored item rows that reference product p.
RECURSIVE StoredQtyOver(_, _, _)
StoredQtyOver(db, ids, p) ==
    IF ids = {} THEN 0
    ELSE LET i == CHOOSE x \in ids : TRUE
         IN QtyOf(db.invoice_items[i], p) + StoredQtyOver(db, ids \ {i}, p)

StoredQty(db, p) == StoredQtyOver(db, DOMAIN db.invoice_items, p)

\* Some item of `items` asks for more than the stock of the product it names.
ExceedsStock(db, items) ==
    \E i \in 1..Len(items) :
        /\ items[i].product_id \in DOMAIN db.products
        /\ items[i].quantity > db.products[items[i].product_id].stock

\* Some item of `items` names a product that does not exist.
NamesNoProduct(db, items) ==
    \E i \in 1..Len(items) :
        items[i].product_id # None /\ items[i].product_id \notin DOMAIN db.products

\* ------------------------------------------------------------------ claims

\* C1: in every state reachable by add_invoice, update_invoice and delete_invoice
\* calls alone, starting from stock >= 0, every product's stock is >= 0.
\* (Stated as the claim states it; the handlers violate it.)
C1_StockNeverNegative == \A p \in DOMAIN products : products[p].stock >= 0

\* C2: stock conservation. With no catalog edits, after any sequence of successful
\* or failed ledger calls, the stock of every product plus the quantities of all
\* stored item rows that reference it equals the stock the product started with.
C2_StockConservation ==
    \A p \in DOMAIN products : products[p].stock + StoredQty(Db, p) = initial_stock[p]

\* C2 witness: an update has just changed stock, and a product is below its
\* initial stock, the difference being held by stored items.
C2_Witness ==
    /\ last.op = "update_invoice" /\ last.result = "ok" /\ "products" \in last.touched
    /\ \E p \in DOMAIN products : products[p].stock < initial_stock[p]

\* C3 as stated: add_invoice with an item whose quantity exceeds the stock of the
\* product it names fails with a stock-insufficiency error, creates no invoice row
\* and no item row and leaves every stock unchanged.
C3_Original ==
    \A invoice \in Headers, items \in ItemLists :
        ExceedsStock(Db, items) =>
            LET r == add_invoice(Db, invoice, items, 0)
            IN r.result.kind = "StockInsufficient" /\ r.db = Db

\* C3 amended: such a call fails, creates no invoice row and no item row and leaves
\* every stock unchanged; the error is the stock-insufficiency error, or the
\* product-not-found error when an item earlier in the list than the first item
\* that exceeds its stock names no existing product.
C3_AddRejected ==
    \A invoice \in Headers, items \in ItemLists :
        ExceedsStock(Db, items) =>
            LET r == add_invoice(Db, invoice, items, 0)
                firstExceeding == CHOOSE i \in 1..Len(items) :
                    /\ ExceedsStock(Db, <<items[i]>>)
                    /\ \A j \in 1..(i - 1) : ~ExceedsStock(Db, <<items[j]>>)
                missingBefore == \E j \in 1..(firstExceeding - 1) :
                    NamesNoProduct(Db, <<items[j]>>)
            IN /\ r.result.kind = IF missingBefore THEN "ProductNotFound"
                                  ELSE "StockInsufficient"
               /\ r.db.invoices = invoices
               /\ r.db.invoice_items = invoice_items
               /\ r.db.products = products

\* C3 witness: an add_invoice has just been rejected for insufficient stock.
C3_Witness == last.op = "add_invoice" /\ last.result = "StockInsufficient"

\* C4: when update_invoice is rejected by stock validation, the stock of every
\* product, the invoice header and the invoice's items are as before the call.
C4_UpdateRejectedRestores ==
    \A id \in InvoiceIds, invoice \in Headers, items \in ItemLists :
        LET r == update_invoice(Db, id, invoice, items, 0)
        IN r.result.kind \in {"StockInsufficient", "ProductNotFound"} =>
               /\ r.db.products = products
               /\ r.db.invoices = invoices
               /\ r.db.invoice_items = invoice_items

\* C4 witness: an update of an invoice was rejected for insufficient stock after
\* the credit of its old items had been written.
C4_Witness ==
    /\ last.op = "update_invoice" /\ last.result = "StockInsufficient"
    /\ last.touched = {"products"}
    /\ last.id \in DOMAIN invoices

\* C5: a ledger handler in which the store raises at any statement, the later
\* statements of its loops included, leaves invoices, items and stock exactly as
\* before the call.
C5_AllOrNothing ==
    /\ \A invoice \in Headers, items \in FaultItemLists, fault \in AddFaults :
           LET r == add_invoice(Db, invoice, items, fault)
           IN r.result.kind # "ok" => r.db = Db
    /\ \A id \in InvoiceIds, invoice \in Headers, items \in FaultItemLists,
          fault \in UpdateFaults :
           LET r == update_invoice(Db, id, invoice, items, fault)
           IN r.result.kind # "ok" => r.db = Db
    /\ \A id \in InvoiceIds, fault \in DeleteFaults :
           LET r == delete_invoice(Db, id, fault)
           IN r.result.kind # "ok" => r.db = Db

\* C5 witness: a handler failed on a storage error after it had written.
C5_Witness ==
    /\ last.op = "update_invoice" /\ last.result = "StorageFailure"
    /\ last.touched = {"products", "invoices", "invoice_items"}

\* C6: a successful delete_invoice(I) adds to each product's stock the total
\* quantity of I's items that reference it and removes I and all its item rows;
\* afterwards get_invoice(I) finds nothing and fetch_invoice_items(I) is empty.
C6_DeleteRestores ==
    \A id \in InvoiceIds :
        LET r == delete_invoice(Db, id, 0)
        IN r.result.kind = "ok" =>
               /\ DOMAIN r.db.products = DOMAIN products
               /\ \A p \in DOMAIN products :
                      r.db.products[p].stock = products[p].stock + QtyOf(ItemRows(Db, id), p)
               /\ get_invoice(r.db, id) = <<>>
               /\ fetch_invoice_items(r.db, id) = <<>>
               /\ \A i \in DOMAIN r.db.invoice_items :
                      \A k \in 1..Len(r.db.invoice_items[i]) :
                          r.db.invoice_items[i][k].invoice_id # id

\* C6 witness: a delete_invoice has just removed an invoice and its items and
\* credited stock, and every product is back at its initial stock with no invoice left.
C6_Witness ==
    /\ last.op = "delete_invoice" /\ last.result = "ok"
    /\ last.touched = {"products", "invoices", "invoice_items"}
    /\ invoices = <<>> /\ invoiceSeq = Cardinality(InvoiceIds)
    /\ \A p \in DOMAIN products : products[p].stock = initial_stock[p]

\* C7: a successful update_invoice leaves each product's stock at
\* stock_before + old quantity for the product - new quantity for the product.
C7_UpdateIsCreditThenDebit ==
    \A id \in InvoiceIds, invoice \in Headers, items \in ItemLists :
        LET r == update_invoice(Db, id, invoice, items, 0)
        IN r.result.kind = "ok" =>
               /\ DOMAIN r.db.products = DOMAIN products
               /\ \A p \in DOMAIN products :
                      r.db.products[p].stock =
                          products[p].stock + QtyOf(ItemRows(Db, id), p) - QtyOf(items, p)

\* C7 witness: an update of an existing invoice succeeded and the invoice now holds
\* items that reference a product.
C7_Witness ==
    /\ last.op = "update_invoice" /\ last.result = "ok" /\ "products" \in last.touched
    /\ last.id \in DOMAIN invoices
    /\ HasProductItem(ItemRows(Db, last.id))

\* C8: after a successful update_invoice(I, header, new_items) the item rows of I
\* are exactly new_items; and in every state the items of an invoice are the list
\* supplied by the last successful add_invoice or update_invoice for it.
C8_ItemsAreLastWritten ==
    /\ \A id \in InvoiceIds, invoice \in Headers, items \in ItemLists :
           LET r == update_invoice(Db, id, invoice, items, 0)
           IN r.result.kind = "ok" => get_invoice_item_quantities(r.db, id) = items
    /\ \A id \in DOMAIN invoices :
           /\ id \in DOMAIN written
           /\ get_invoice_item_quantities(Db, id) = written[id]

\* C8 witness: an update replaced the items of an existing invoice by a list of
\* two rows.
C8_Witness ==
    /\ last.op = "update_invoice" /\ last.result = "ok"
    /\ "invoice_items" \in last.touched
    /\ last.id \in DOMAIN invoices
    /\ Len(ItemRows(Db, last.id)) = 2

\* C9: the Widget scenario. From stock 10: add A {Widget, 4} succeeds, stock 6;
\* add B {Widget, 8} is rejected, stock stays 6; update A to {Widget, 9} succeeds,
\* stock 1; delete A, stock 10.
C9_Scenario ==
    /\ scn = 1 => last.result = "ok" /\ products[Widget].stock = 6
                  /\ last.id \in DOMAIN invoices
    /\ scn = 2 => last.result = "StockInsufficient" /\ products[Widget].stock = 6
                  /\ DOMAIN invoices = {1}
    /\ scn = 3 => last.result = "ok" /\ products[Widget].stock = 1
    /\ scn = 4 => last.result = "ok" /\ products[Widget].stock = 10
                  /\ invoices = <<>> /\ invoice_items = <<>>

\* C9 witness: the four calls of the scenario have been made, in order.
C9_Witness == scn = 4

\* C10: every stored invoice item row belongs to an invoice row that exists.
C10_NoOrphanItems ==
    \A i \in DOMAIN invoice_items :
        \A k \in 1..Len(invoice_items[i]) :
            /\ invoice_items[i][k].invoice_id = i
            /\ invoice_items[i][k].invoice_id \in DOMAIN invoices

\* C10 witness: a delete_invoice has just removed an invoice together with its
\* item rows, after a product was deleted from the catalog.
C10_Witness ==
    /\ last.op = "delete_invoice" /\ last.result = "ok"
    /\ "invoice_items" \in last.touched
    /\ DOMAIN products # InitialProductIds

\* C11: every stock-insufficiency rejection by add_invoice or update_invoice names
\* the product whose stock is insufficient, that product's stock at the moment of
\* validation (for update_invoice: after the invoice's old items were credited)
\* and the quantity requested for it by the item that failed.
C11_RejectionNamesShortfall ==
    /\ \A invoice \in Headers, items \in ItemLists :
           LET r == add_invoice(Db, invoice, items, 0)
           IN r.result.kind = "StockInsufficient" =>
                  /\ r.result.product \in DOMAIN products
                  /\ r.result.have = products[r.result.product].stock
                  /\ r.result.have < r.result.need
                  /\ \E i \in 1..Len(items) :
                         /\ items[i].product_id = r.result.product
                         /\ items[i].quantity = r.result.need
    /\ \A id \in InvoiceIds, invoice \in Headers, items \in ItemLists :
           LET r == update_invoice(Db, id, invoice, items, 0)
           IN r.result.kind = "StockInsufficient" =>
                  /\ r.result.product \in DOMAIN products
                  /\ r.result.have = products[r.result.product].stock
                                         + QtyOf(ItemRows(Db, id), r.result.product)
                  /\ r.result.have < r.result.need
                  /\ \E i \in 1..Len(items) :
                         /\ items[i].product_id = r.result.product
                         /\ items[i].quantity = r.result.need

\* C11 witness: an update_invoice was rejected for insufficient stock, validated
\* against the stock replenished by the old items the invoice still holds.
C11_Witness ==
    /\ last.op = "update_invoice" /\ last.result = "StockInsufficient"
    /\ "products" \in last.touched
    /\ HasProductItem(ItemRows(Db, last.id))

\* C12: after initialization exactly one settings row exists in every reachable
\* state, and no save_settings call leaves zero rows or more than one.
C12_OneSettingsRow ==
    inits >= 1 =>
        /\ Len(settings) = 1
        /\ settings[1]["id"] = Integer(1)
        /\ \A values \in SettingsInputs : Len(save_settings(St, values).settings) = 1

\* C12 witness: save_settings has run on an initialized store and its values are
\* in the one row.
C12_Witness ==
    /\ out.op = "save_settings" /\ inits >= 1
    /\ Len(settings) = 1
    /\ settings[1]["company_name"] = Text("Acme")
    /\ settings[1]["theme"] = Text("Acme")

\* C13: settings round trip. For every value X of the seven fields, get_settings
\* called after save_settings(X) returns X for every field, whatever was stored
\* before.
C13_SettingsRoundTrip ==
    mgr = "open" =>
        \A values \in SettingsInputs :
            LET got == get_settings(save_settings(St, values))
            IN \A f \in SettingsFields : PyEq(got[f], values[f])

\* C13 witness: a save_settings replaced earlier values: the row now reads theme
\* "Acme", an empty company name and a discount of 5.
C13_Witness ==
    /\ out.op = "save_settings" /\ mgr = "open"
    /\ get_settings(St)["theme"] = Text("Acme")
    /\ get_settings(St)["company_name"] = Text("")
    /\ get_settings(St)["max_discount"] = Real(5)

\* C14: initialization is idempotent. Run again on a store it has already
\* initialized, it completes, leaves every table's columns as they are and adds no
\* settings row and no admin row.
C14_InitIdempotent ==
    inits >= 1 =>
        LET r == initialize(St)
        IN /\ r.result = "ok"
           /\ r.st.schema = schema
           /\ r.st.settings = settings
           /\ r.st.admin_users = admin_users

\* C14 witness: __init__ has completed a second time on the same store.
C14_Witness == inits = 2 /\ out.op = "init" /\ out.ok /\ mgr = "open"

\* C15: after initialization of any store, at least one admin row with the active
\* flag set exists.  (Stated as the claim states it; the migration violates it.)
C15_ActiveAdminExists ==
    inits >= 1 => \E i \in 1..Len(admin_users) : admin_users[i].is_active = 1

\* A row that matches the triple in every field and is active.
FullMatch(row, username, password, license_key) ==
    /\ row.username = username
    /\ row.password_hash = sha256(password)
    /\ row.license_key = license_key
    /\ row.is_active = 1

\* C16: authenticate_admin(username, password, license_key) is true if and only
\* if one admin row has that username, the digest of that password, that license
\* key and the active flag; rows that match in part, or are inactive, do not count.
C16_AuthenticateExact ==
    \A u \in Usernames, p \in Passwords, k \in LicenseKeys :
        LET matching == {i \in 1..Len(admin_users) : FullMatch(admin_users[i], u, p, k)}
        IN /\ matching # {} => authenticate_admin(St, u, p, k)
           /\ matching = {} => ~authenticate_admin(St, u, p, k)

\* C16 witness: a sign-in succeeded on a table that also holds an inactive row and
\* a row whose stored hash is the password itself.
C16_Witness ==
    /\ out.op = "authenticate_admin" /\ out.ret = "True"
    /\ \E i \in 1..Len(admin_users) :
           admin_users[i].is_active = 0 \/ admin_users[i].password_hash \in Passwords

\* C17: after initialization of a store of any prior version, stock, cost_price
\* and sale_price are columns of products, discount of invoice_items and
\* max_discount of settings.  (Stated as the claim states it; the migration
\* violates it.)
C17_ColumnsPresent ==
    inits >= 1 =>
        /\ {"stock", "cost_price", "sale_price"} \subseteq schema["products"]
        /\ "discount" \in schema["invoice_items"]
        /\ "max_discount" \in schema["settings"]

\* C18: initialization never fails because a column it adds already exists,
\* whichever of the added columns the store already has.  (Stated as the claim
\* states it; the migration violates it.)
C18_InitNeverFails == mgr = "closed" => initialize(St).result = "ok"

\* C19: after any add_product or update_product call, whatever unit_price and
\* sale_price the caller supplies, the stored product has unit_price equal to
\* sale_price; and after the migration of an older store every product's
\* sale_price equals its unit_price.  (Stated as the claim states it; the
\* handlers violate it.)
C19_PricesSynchronized ==
    /\ mgr = "open" =>
           \A data \in ProductData :
               LET r == add_product(St, data)
               IN r.result = "ok" =>
                      r.st.products[r.id]["unit_price"] = r.st.products[r.id]["sale_price"]
    /\ mgr = "open" =>
           \A p \in DOMAIN products, data \in ProductData :
               LET r == update_product(St, p, data)
               IN r.result = "ok" =>
                      r.st.products[p]["unit_price"] = r.st.products[p]["sale_price"]
    /\ inits = 0 =>
           LET r == initialize(St)
           IN r.result = "ok" =>
                  \A i \in DOMAIN r.st.products :
                      "sale_price" \in DOMAIN r.st.products[i] =>
                          r.st.products[i]["sale_price"] = r.st.products[i]["unit_price"]

\* Two or more items of `items` reference product p, each asks for no more than
\* `available`, and together they ask for more.
SplitsOverdraw(items, p, available) ==
    /\ Cardinality({i \in 1..Len(items) : items[i].product_id = p}) >= 2
    /\ \A i \in 1..Len(items) : items[i].product_id = p => items[i].quantity <= available
    /\ QtyOf(items, p) > available

\* C20: add_invoice or update_invoice whose item list holds two or more items
\* referencing the same product, each with quantity <= the available stock but
\* with total quantity > the available stock, is rejected in full and changes no
\* stock.  (Stated as the claim states it; the handlers violate it.)
C20_SplitOverdrawRejected ==
    /\ \A invoice \in Headers, items \in ItemLists :
           (\E p \in DOMAIN products : SplitsOverdraw(items, p, products[p].stock)) =>
               LET r == add_invoice(Db, invoice, items, 0)
               IN r.result.kind # "ok" /\ r.db.products = products
    /\ \A id \in InvoiceIds, invoice \in Headers, items \in ItemLists :
           (\E p \in DOMAIN products :
                SplitsOverdraw(items, p, products[p].stock + QtyOf(ItemRows(Db, id), p))) =>
               LET r == update_invoice(Db, id, invoice, items, 0)
               IN r.result.kind # "ok" /\ r.db.products = products

\* C21 as stated: updating an invoice with an item list equal to the one it holds
\* succeeds and leaves every product's stock unchanged.
\* (Stated as the claim states it; the handlers violate it where a stock is below 0.)
C21_SameItemsUpdateSucceeds ==
    \A id \in DOMAIN invoices :
        LET r == update_invoice(Db, id, invoices[id], get_invoice_item_quantities(Db, id), 0)
        IN r.result.kind = "ok" /\ r.db.products = products

\* Item lists of ad-hoc lines only, with quantities up to above every stock.
AdHocQuantities == {1, MaxStock + 1}
AdHocLists == ListsOver([product_id : {None}, quantity : AdHocQuantities], ItemCounts)

\* C22: ad-hoc lines are never a cause of rejection and never change a stock.
\* add_invoice with only ad-hoc lines, of any quantities, is never rejected by the
\* stock validation, succeeds when the invoice number is free, and leaves every
\* stock unchanged; so do update_invoice replacing ad-hoc lines by ad-hoc lines (it
\* succeeds when the number is free or the invoice's own) and delete_invoice of an
\* invoice of ad-hoc lines, also of the invoice just added or updated.
C22_AdHocNeverRejected ==
    /\ \A invoice \in Headers, items \in AdHocLists :
           LET r == add_invoice(Db, invoice, items, 0)
               d == delete_invoice(r.db, r.id, 0)
           IN /\ r.result.kind \in {"ok", "StorageFailure"}
              /\ ~InsertInvoiceFails(Db, invoice) => r.result.kind = "ok"
              /\ r.db.products = products
              /\ r.result.kind = "ok" =>
                     /\ get_invoice_item_quantities(r.db, r.id) = items
                     /\ d.result.kind = "ok" /\ d.db.products = products
    /\ \A id \in DOMAIN invoices, invoice \in Headers, items \in AdHocLists :
           ~HasProductItem(ItemRows(Db, id)) =>
               LET r == update_invoice(Db, id, invoice, items, 0)
                   d == delete_invoice(Db, id, 0)
               IN /\ r.result.kind \in {"ok", "StorageFailure"}
                  /\ ~UpdateInvoiceFails(Db, id, invoice) => r.result.kind = "ok"
                  /\ r.db.products = products
                  /\ r.result.kind = "ok" => get_invoice_item_quantities(r.db, id) = items
                  /\ d.result.kind = "ok" /\ d.db.products = products

\* C22 witness: an update has just replaced the items of an invoice by two ad-hoc
\* lines while a product's stock is 0.
C22_Witness ==
    /\ last.op = "update_invoice" /\ last.result = "ok"
    /\ last.id \in DOMAIN invoices
    /\ Len(ItemRows(Db, last.id)) = 2
    /\ ~HasProductItem(ItemRows(Db, last.id))
    /\ last.touched = {"invoice_items"}
    /\ \E p \in DOMAIN products : products[p].stock = 0

\* The item asks for more than the stock its product has once the items invoice
\* `id` holds are credited back.
ExceedsCredited(db, id, item) ==
    /\ item.product_id \in DOMAIN db.products
    /\ item.quantity > db.products[item.product_id].stock
                           + QtyOf(ItemRows(db, id), item.product_id)

\* Some item before the first item of `items` that names no product exceeds the
\* credited stock of its product.
ExceedsBeforeMissing(db, id, items) ==
    LET firstMissing == CHOOSE i \in 1..Len(items) :
            /\ NamesNoProduct(db, <<items[i]>>)
            /\ \A j \in 1..(i - 1) : ~NamesNoProduct(db, <<items[j]>>)
    IN \E j \in 1..(firstMissing - 1) : ExceedsCredited(db, id, items[j])

\* C23 as stated: add_invoice or update_invoice with an item that names no existing
\* product is rejected with the product-not-found error and leaves invoices, items
\* and stock unchanged.
C23_Original ==
    /\ \A invoice \in Headers, items \in ItemLists :
           NamesNoProduct(Db, items) =>
               LET r == add_invoice(Db, invoice, items, 0)
               IN r.result.kind = "ProductNotFound" /\ r.db = Db
    /\ \A id \in InvoiceIds, invoice \in Headers, items \in ItemLists :
           NamesNoProduct(Db, items) =>
               LET r == update_invoice(Db, id, invoice, items, 0)
               IN r.result.kind = "ProductNotFound" /\ r.db = Db

\* C23 amended: such a call is rejected and leaves invoices, items and stock
\* unchanged (the credit of the old items is undone); the error is the
\* product-not-found error, or the stock-insufficiency error when an item earlier
\* in the list than the first item naming no product exceeds its product's stock
\* (for update_invoice: the stock after the credit of the old items).
C23_MissingProductRejected ==
    /\ \A invoice \in Headers, items \in ItemLists :
           NamesNoProduct(Db, items) =>
               LET r == add_invoice(Db, invoice, items, 0)
               IN /\ r.result.kind = IF ExceedsBeforeMissing(Db, None, items)
                                     THEN "StockInsufficient" ELSE "ProductNotFound"
                  /\ r.db = Db
    /\ \A id \in InvoiceIds, invoice \in Headers, items \in ItemLists :
           NamesNoProduct(Db, items) =>
               LET r == update_invoice(Db, id, invoice, items, 0)
               IN /\ r.result.kind = IF ExceedsBeforeMissing(Db, id, items)
                                     THEN "StockInsufficient" ELSE "ProductNotFound"
                  /\ r.db = Db

\* C23 witness: an update of an existing invoice was rejected for a product that
\* does not exist after the credit of the old items had been written.
C23_Witness ==
    /\ last.op = "update_invoice" /\ last.result = "ProductNotFound"
    /\ last.touched = {"products"}
    /\ last.id \in DOMAIN invoices
    /\ HasProductItem(ItemRows(Db, last.id))

\* C24: no two invoices share an invoice number; add_invoice with a number an
\* invoice holds, and update_invoice changing an invoice's number to one another
\* invoice holds, fail and leave stock, invoices and items as before the call.
C24_InvoiceNumbersUnique ==
    /\ \A i, j \in DOMAIN invoices :
           i # j => invoices[i].invoice_number # invoices[j].invoice_number
    /\ \A invoice \in Headers, items \in ItemLists :
           (\E i \in DOMAIN invoices : invoices[i].invoice_number = invoice.invoice_number) =>
               LET r == add_invoice(Db, invoice, items, 0)
               IN r.result.kind # "ok" /\ r.db = Db
    /\ \A id \in DOMAIN invoices, invoice \in Headers, items \in ItemLists :
           (\E i \in DOMAIN invoices \ {id} :
                invoices[i].invoice_number = invoice.invoice_number) =>
               LET r == update_invoice(Db, id, invoice, items, 0)
               IN r.result.kind # "ok" /\ r.db = Db

\* C24 witness: an update that would have given an invoice the number of the other
\* invoice failed on the store's constraint after the credit of its old items had
\* been written, and both invoices are there.
C24_Witness ==
    /\ last.op = "update_invoice" /\ last.result = "StorageFailure"
    /\ last.id \in DOMAIN invoices
    /\ "products" \in last.touched
    /\ Cardinality(DOMAIN invoices) = 2

\* A total as a number: the None that SUM gives over no invoice counts as 0.
AmountOf(v) == IF v = Null THEN 0 ELSE v.num

RECURSIVE SumBuckets(_, _)
SumBuckets(breakdown, keys) ==
    IF keys = {} THEN 0
    ELSE LET k == CHOOSE x \in keys : TRUE
         IN breakdown[k] + SumBuckets(breakdown, keys \ {k})

\* C25 as stated: in totals_summary every invoice's total amount is counted in
\* exactly one status bucket, invoices without a status in the bucket "Unknown":
\* each bucket holds the sum of the totals of the invoices whose status (or
\* "Unknown") is its key, and the buckets sum to total_revenue.
\* (Stated as the claim states it; totals_summary violates it.)
C25_BucketsSumToRevenue ==
    LET summary == totals_summary(Db)
        breakdown == summary.status_breakdown
    IN /\ DOMAIN breakdown = {StatusKey(invoices[i].status) : i \in DOMAIN invoices}
       /\ \A k \in DOMAIN breakdown :
              breakdown[k] =
                  SumAmounts(Db, {i \in DOMAIN invoices : StatusKey(invoices[i].status) = k})
       /\ SumBuckets(breakdown, DOMAIN breakdown) = AmountOf(summary.total_revenue)

\* C26: with ledger and catalog calls interleaved, every item row that carries a
\* product reference names a product that exists; delete_product of a product an
\* item of an existing invoice references fails with a storage error and removes
\* nothing, and delete_invoice and update_invoice of that invoice still credit the
\* product's stock.
C26_ProductReferencesExist ==
    /\ \A i \in DOMAIN invoice_items : \A k \in 1..Len(invoice_items[i]) :
           invoice_items[i][k].product_id # None =>
               invoice_items[i][k].product_id \in DOMAIN products
    /\ \A p \in ProductIds, i \in DOMAIN invoices :
           QtyOf(ItemRows(Db, i), p) > 0 =>
               LET r == delete_product(Db, p)
                   d == delete_invoice(r.db, i, 0)
                   u == update_invoice(r.db, i, invoices[i], <<>>, 0)
               IN /\ r.result.kind = "StorageFailure"
                  /\ r.db = Db
                  /\ d.result.kind = "ok"
                  /\ d.db.products[p].stock = products[p].stock + QtyOf(ItemRows(Db, i), p)
                  /\ u.result.kind = "ok"
                  /\ u.db.products[p].stock = products[p].stock + QtyOf(ItemRows(Db, i), p)

\* C26 witness: a delete_product has just failed on the store's constraint: an
\* invoice holds an item of a product added to the catalog after the model started.
C26_Witness ==
    /\ last.op = "delete_product" /\ last.result = "StorageFailure"
    /\ \E i \in DOMAIN invoices : \E p \in DOMAIN products \ InitialProductIds :
           QtyOf(ItemRows(Db, i), p) > 0

\* Identifiers that name no invoice: never assigned, or of a deleted invoice.
NoInvoiceIds == (InvoiceIds \cup {invoiceSeq + 1}) \ DOMAIN invoices

\* C27: delete_invoice credits stock at most once per invoice. Called with an
\* identifier that names no invoice it succeeds and leaves stock, invoices and
\* items unchanged; so does a second delete_invoice of an invoice just deleted.
C27_DeleteOfNoInvoiceIsNoOp ==
    /\ \A id \in NoInvoiceIds :
           LET r == delete_invoice(Db, id, 0)
           IN r.result.kind = "ok" /\ r.db = Db /\ r.touched = {}
    /\ \A id \in DOMAIN invoices :
           LET first == delete_invoice(Db, id, 0)
               second == delete_invoice(first.db, id, 0)
           IN second.result.kind = "ok" /\ second.db = first.db

\* C27 witness: delete_invoice has just returned for the id of an invoice deleted
\* before, having written nothing, while another invoice holds items of a product.
C27_Witness ==
    /\ last.op = "delete_invoice" /\ last.result = "ok" /\ last.touched = {}
    /\ last.id \notin DOMAIN invoices /\ last.id <= invoiceSeq
    /\ \E i \in DOMAIN invoices : HasProductItem(ItemRows(Db, i))

\* C28: update_invoice with an identifier that names no invoice leaves stock,
\* invoices and items exactly as before, for every item list, whether it raises
\* (it does when the list has a row) or returns.
C28_UpdateOfNoInvoiceChangesNothing ==
    \A id \in NoInvoiceIds, invoice \in Headers, items \in ItemLists :
        LET r == update_invoice(Db, id, invoice, items, 0)
        IN /\ r.db = Db
           /\ r.result.kind = "ok" <=> Len(items) = 0

\* C28 witness: an update_invoice with the id of a deleted invoice and items the
\* stock would have covered was stopped by the store's constraint, while another
\* invoice exists.
C28_Witness ==
    /\ last.op = "update_invoice" /\ last.result = "StorageFailure"
    /\ last.id \notin DOMAIN invoices /\ last.id <= invoiceSeq
    /\ invoices # <<>>

\* C29: ledger calls change products only through the stock of the products the
\* old or the new items of the invoice reference: they add and remove no product,
\* leave every other product's stock unchanged, and leave the header and the items
\* of every other invoice unchanged.
C29_LedgerFrame ==
    LET Frame(r, id, items) ==
            /\ DOMAIN r.db.products = DOMAIN products
            /\ r.db.productSeq = productSeq
            /\ \A p \in DOMAIN products :
                   QtyOf(ItemRows(Db, id), p) = 0 /\ QtyOf(items, p) = 0 =>
                       r.db.products[p] = products[p]
            /\ \A j \in DOMAIN invoices \ {id} :
                   /\ j \in DOMAIN r.db.invoices
                   /\ r.db.invoices[j] = invoices[j]
                   /\ ItemRows(r.db, j) = ItemRows(Db, j)
    IN /\ \A invoice \in Headers, items \in ItemLists :
              LET r == add_invoice(Db, invoice, items, 0)
              IN Frame(r, r.id, items) /\ r.id \notin DOMAIN invoices
       /\ \A id \in InvoiceIds, invoice \in Headers, items \in ItemLists :
              Frame(update_invoice(Db, id, invoice, items, 0), id, items)
       /\ \A id \in InvoiceIds : Frame(delete_invoice(Db, id, 0), id, <<>>)

\* C29 witness: an update has just changed the stock of one product while the
\* other product, which no item of the updated invoice references, is held by the
\* other invoice.
C29_Witness ==
    /\ last.op = "update_invoice" /\ last.result = "ok" /\ "products" \in last.touched
    /\ \E i \in DOMAIN invoices \ {last.id} : \E p \in DOMAIN products :
           /\ QtyOf(ItemRows(Db, i), p) > 0
           /\ QtyOf(ItemRows(Db, last.id), p) = 0
           /\ HasProductItem(ItemRows(Db, last.id))

\* C30: re-initialization preserves data. On a store a manager has worked on,
\* __init__ after save_settings(X) completes, leaves the settings row as saved
\* (get_settings still returns X) and leaves the admin rows as they are.
C30_ReinitPreservesData ==
    inits >= 1 /\ Len(admin_users) > 0 =>
        \A values \in SettingsInputs :
            LET saved == save_settings(St, values)
                r == initialize(saved)
            IN /\ r.result = "ok"
               /\ r.st.settings = saved.settings
               /\ \A f \in SettingsFields : PyEq(get_settings(r.st)[f], values[f])
               /\ r.st.admin_users = admin_users

\* C30 witness: __init__ has completed a second time on a store whose settings
\* row holds values written by save_settings and whose admin rows do not include
\* the default admin.
C30_Witness ==
    /\ inits = 2 /\ out.op = "init" /\ out.ok
    /\ Len(settings) = 1
    /\ settings[1]["company_name"] = Text("Acme")
    /\ settings[1]["theme"] = Text("Acme")
    /\ settings[1]["max_discount"] = Real(5)
    /\ Len(admin_users) > 0
    /\ \A i \in 1..Len(admin_users) : admin_users[i].username # "admin"

====
